---- MODULE Spec2Model ----
(***************************************************************************)
(* Price history service: the candle resolution path of                    *)
(* GET /prices/history (app/api/price.py), the candle repository           *)
(* (app/repositories/candle_repository.py), the response cache             *)
(* (app/repositories/price_cache.py), the interval catalog                 *)
(* (app/utils/time.py) and the Binance fallback client                     *)
(* (app/services/binance_client.py).                                       *)
(*                                                                         *)
(* Prices and volumes are modelled as integers.  A symbol is a sequence of *)
(* one-letter strings, so that str.upper() is a real conversion.  A redis  *)
(* key f"history:{symbol}:{interval}" is the tuple <<"history", symbol,    *)
(* interval>>.  Python dicts are TLA+ records/functions whose DOMAIN is    *)
(* the dict's key set, so that a missing key is a KeyError.                *)
(***************************************************************************)
EXTENDS Integers, Sequences, FiniteSets, TLC

(***************************************************************************)
(* Bounds of the model                                                     *)
(***************************************************************************)
\* number of sequential requests the client issues
MaxRequests == 2
\* the persistent store holds closed 1m candles in the minute slots
\* 4 .. 3 + MaxMinutes (epoch minutes): with two slots, seconds 240 and 300,
\* which fall into different 5m buckets
MaxMinutes == 2
\* explicit limit query parameters range over 0 .. MaxLimit
MaxLimit == 1
\* a 1m list handed directly to the aggregator covers at most MaxCandles
\* consecutive minutes
MaxCandles == 4
\* number of direct cache calls and clock ticks in a run of the cache
MaxOps == 4

(***************************************************************************)
(* Generic helpers                                                         *)
(***************************************************************************)
Max(a, b) == IF a >= b THEN a ELSE b
Min(a, b) == IF a <= b THEN a ELSE b

\* Python seq[start:] for any integer start
PySliceFrom(seq, start) ==
    LET n == Len(seq)
        s == IF start < 0 THEN Max(n + start, 0) ELSE Min(start, n)
    IN  SubSeq(seq, s + 1, n)

\* Python reversed(seq)
Reversed(seq) == [i \in 1..Len(seq) |-> seq[Len(seq) + 1 - i]]

\* the times of a candle list, in list order
TimesOf(cs) == [i \in 1..Len(cs) |-> cs[i].time]

StrictlyAscending(ts) == \A i \in 1..(Len(ts) - 1) : ts[i] < ts[i + 1]

(***************************************************************************)
(* Symbols and str.upper()                                                 *)
(***************************************************************************)
BTCUSDT == <<"B", "T", "C", "U", "S", "D", "T">>
btcusdt == <<"b", "t", "c", "u", "s", "d", "t">>
Symbols == {BTCUSDT, btcusdt}

UpperChar(ch) ==
    CASE ch = "b" -> "B"
      [] ch = "t" -> "T"
      [] ch = "c" -> "C"
      [] ch = "u" -> "U"
      [] ch = "s" -> "S"
      [] ch = "d" -> "D"
      [] OTHER -> ch

\* symbol.upper()
Upper(symbol) == [i \in 1..Len(symbol) |-> UpperChar(symbol[i])]

(***************************************************************************)
(* Interval catalog (app/utils/time.py)                                    *)
(***************************************************************************)
SUPPORTED_INTERVALS ==
    {"1m", "3m", "5m", "15m", "30m", "1h", "2h", "4h", "6h", "8h", "12h",
     "1d", "3d", "1w", "1M"}

\* variant: the check lets every interval string through
is_supported_interval_any(interval) == interval = interval

is_supported_interval(interval) == interval \in SUPPORTED_INTERVALS

\* SUPPORTED_INTERVALS[interval].total_seconds() of a catalog interval
IntervalSeconds(interval) ==
    CASE interval = "1m"  -> 60
      [] interval = "3m"  -> 3 * 60
      [] interval = "5m"  -> 5 * 60
      [] interval = "15m" -> 15 * 60
      [] interval = "30m" -> 30 * 60
      [] interval = "1h"  -> 3600
      [] interval = "2h"  -> 2 * 3600
      [] interval = "4h"  -> 4 * 3600
      [] interval = "6h"  -> 6 * 3600
      [] interval = "8h"  -> 8 * 3600
      [] interval = "12h" -> 12 * 3600
      [] interval = "1d"  -> 86400
      [] interval = "3d"  -> 3 * 86400
      [] interval = "1w"  -> 7 * 86400
      [] interval = "1M"  -> 30 * 86400

\* the interval strings a request of the model may carry: the base
\* timeframe, an aggregatable one, one the catalog has but the aggregator
\* has not, and one outside the catalog
RequestIntervals == {"1m", "5m", "3m", "2m"}

(***************************************************************************)
(* get_price_history: lookup tables                                        *)
(***************************************************************************)
\* limit_map.get(interval, 500)
limit_map(interval) ==
    CASE interval = "1m"  -> 1000
      [] interval = "5m"  -> 864
      [] interval = "15m" -> 672
      [] interval = "1h"  -> 720
      [] interval = "4h"  -> 540
      [] interval = "1d"  -> 365
      [] interval = "1w"  -> 156
      [] OTHER -> 500

\* ttl_map.get(interval, 60) of the TimescaleDB branch
ttl_map_db(interval) ==
    CASE interval = "1m"  -> 5
      [] interval = "5m"  -> 10
      [] interval = "15m" -> 30
      [] interval = "1h"  -> 60
      [] interval = "4h"  -> 300
      [] interval = "1d"  -> 600
      [] interval = "1w"  -> 1800
      [] OTHER -> 60

\* variant: the Binance branch caches every interval for the default 60 s
ttl_map_binance_default(interval) == 60

\* ttl_map.get(interval, 60) of the Binance branch
ttl_map_binance(interval) ==
    CASE interval = "1m"  -> 5
      [] interval = "5m"  -> 10
      [] interval = "15m" -> 30
      [] interval = "1h"  -> 60
      [] interval = "4h"  -> 300
      [] interval = "1d"  -> 600
      [] interval = "1w"  -> 1800
      [] OTHER -> 60

(***************************************************************************)
(* Optional values and outcomes                                            *)
(***************************************************************************)
\* Python None / a missing redis key is the empty tuple, a present value v
\* is <<v>>
None == <<>>
Some(v) == <<v>>

Ok(v) == [ok |-> TRUE, val |-> v]
Raise(e) == [ok |-> FALSE, err |-> e]

(***************************************************************************)
(* JSON (de)serialisation as the redis repositories use it: the stored     *)
(* payload is a string, tagged here so that it is never the value itself   *)
(***************************************************************************)
JsonDumps(value) == [json |-> value]
JsonLoads(data) == data.json

(***************************************************************************)
(* Persistent candle store (TimescaleDB): table coins and table            *)
(* candle_data_1m of the one coin the table knows                          *)
(***************************************************************************)
\* coins: symbol -> id
COINS == (BTCUSDT :> 1)

MinuteSlots == 4 .. (3 + MaxMinutes)

\* the closed 1m row of epoch minute m (column time is
\* EXTRACT(EPOCH FROM timestamp)::bigint, i.e. seconds)
StoreRow(m) ==
    [time   |-> 60 * m,
     open   |-> 100 + m,
     high   |-> 100 + 2 * m,
     low    |-> 100 - m,
     close  |-> 101 + m,
     volume |-> m]

\* the row sets the table may hold
StoreContents == { {StoreRow(m) : m \in T} : T \in SUBSET MinuteSlots }

\* the element of a non-empty set of rows with the largest time
Newest(rows) == CHOOSE r \in rows : \A q \in rows : q.time <= r.time

\* SELECT ... ORDER BY timestamp DESC LIMIT :limit
RECURSIVE SelectDescLimit(_, _)
SelectDescLimit(rows, limit) ==
    IF rows = {} \/ limit <= 0 THEN <<>>
    ELSE <<Newest(rows)>> \o SelectDescLimit(rows \ {Newest(rows)}, limit - 1)

\* [ {'time': row.time, 'open': float(row.open), ...} for row in reversed(rows) ]
RowsToCandles(rows) ==
    [i \in 1..Len(rows) |->
        LET row == Reversed(rows)[i]
        IN  [time |-> row.time, open |-> row.open, high |-> row.high,
             low |-> row.low, close |-> row.close, volume |-> row.volume]]

(***************************************************************************)
(* CandleRepository._aggregate_1m_candles                                  *)
(***************************************************************************)
\* variant: every timeframe is taken for one minute wide
TIMEFRAME_MINUTES_one(interval) == 1

\* TIMEFRAME_MINUTES.get(interval); 0 stands for None (both are falsy)
TIMEFRAME_MINUTES(interval) ==
    CASE interval = "5m"  -> 5
      [] interval = "15m" -> 15
      [] interval = "1h"  -> 60
      [] interval = "4h"  -> 240
      [] interval = "1d"  -> 1440
      [] interval = "1w"  -> 10080
      [] OTHER -> 0

\* variant: the bucket start is left in milliseconds
BucketStart_ms(time, interval_minutes) ==
    LET timestamp_ms == time * 1000
        width_ms == interval_minutes * 60 * 1000
    IN  (timestamp_ms \div width_ms) * width_ms

\* bucket start, in seconds, of a candle time in seconds
BucketStart(time, interval_minutes) ==
    LET timestamp_ms == time * 1000
        width_ms == interval_minutes * 60 * 1000
        bucket_start_ms == (timestamp_ms \div width_ms) * width_ms
    IN  bucket_start_ms \div 1000

\* the for loop over candles_1m, from index i, on the dict aggregated
RECURSIVE AggregateLoop(_, _, _, _)
AggregateLoop(candles_1m, i, interval_minutes, aggregated) ==
    IF i > Len(candles_1m) THEN aggregated
    ELSE
        LET candle == candles_1m[i]
            bucket_start == BucketStart(candle.time, interval_minutes)
        IN  IF bucket_start \notin DOMAIN aggregated
            THEN AggregateLoop(candles_1m, i + 1, interval_minutes,
                    aggregated @@ (bucket_start :>
                        [time   |-> bucket_start,
                         open   |-> candle.open,
                         high   |-> candle.high,
                         low    |-> candle.low,
                         close  |-> candle.close,
                         volume |-> candle.volume]))
            ELSE AggregateLoop(candles_1m, i + 1, interval_minutes,
                    [aggregated EXCEPT ![bucket_start] =
                        [@ EXCEPT !.high   = Max(@, candle.high),
                                  !.low    = Min(@, candle.low),
                                  !.close  = candle.close,
                                  !.volume = @ + candle.volume]])

\* sorted(aggregated.values(), key=lambda x: x['time'])
RECURSIVE SortedByTime(_)
SortedByTime(cands) ==
    IF cands = {} THEN <<>>
    ELSE LET first == CHOOSE c \in cands : \A d \in cands : c.time <= d.time
         IN  <<first>> \o SortedByTime(cands \ {first})

\* result[-limit:] if len(result) > limit else result
LastN(result, limit) ==
    IF Len(result) > limit THEN PySliceFrom(result, 0 - limit) ELSE result

_aggregate_1m_candles(candles_1m, interval, limit) ==
    LET interval_minutes == TIMEFRAME_MINUTES(interval)
    IN  IF interval_minutes = 0 THEN <<>>
        ELSE LET aggregated == AggregateLoop(candles_1m, 1, interval_minutes, <<>>)
                 result == SortedByTime({aggregated[b] : b \in DOMAIN aggregated})
             IN  LastN(result, limit)

(***************************************************************************)
(* Fresh-candle store: redis key current_candle:{symbol}:1m, written by an *)
(* external real-time aggregator                                           *)
(***************************************************************************)
\* the JSON payload of the open 1m candle of epoch minute m
FreshPayload(m) ==
    JsonDumps([time |-> 60 * m, open |-> 200 + m, high |-> 200 + 2 * m,
               low |-> 200 - m, close |-> 201 + m, volume |-> 1])

\* what the key may hold: nothing, or the candle of a stored minute (a
\* stale or already closed one) or of the minute after the last slot
FreshContents ==
    {None} \cup {Some(FreshPayload(m)) : m \in 4 .. (4 + MaxMinutes)}

\* the keys of the candle payload, and those read with float(...)
CandleKeys == {"time", "open", "high", "low", "close", "volume"}
PriceKeys == CandleKeys \ {"time"}

\* a value of the key that json.loads rejects
UnparseablePayload == [text |-> "{"]

\* the payload of minute m without the key k
PayloadWithout(m, k) ==
    LET whole == JsonLoads(FreshPayload(m))
    IN  JsonDumps([f \in CandleKeys \ {k} |-> whole[f]])

\* the payload of minute m whose key k holds the string "abc": json keeps
\* the keys with a numeric value, strings names the keys with a string that
\* is not a number
PayloadWithString(m, k) ==
    [json |-> JsonLoads(PayloadWithout(m, k)), strings |-> {k}]

\* malformed values of the key, built from the candle of the minute after
\* the last slot: unparseable, or one key missing or not numeric
MalformedContents ==
    {Some(UnparseablePayload)}
    \cup {Some(PayloadWithout(4 + MaxMinutes, k)) : k \in CandleKeys}
    \cup {Some(PayloadWithString(4 + MaxMinutes, k)) : k \in CandleKeys}

\* variant: the current candle is appended without looking for its time
\* in the list
MergeCurrent_always(candles, current_1m_data) ==
    IF current_1m_data \notin FreshContents \ {None} THEN candles
    ELSE Append(candles, JsonLoads(current_1m_data[1]))

\* the merge of the current 1m candle into the candle list (the block
\* "if current_1m_data: try: ... except Exception" of get_candles)
MergeCurrent(candles, current_1m_data) ==
    IF current_1m_data = None THEN candles
    ELSE IF "json" \notin DOMAIN current_1m_data[1]
    THEN candles                                \* json.loads raises
    ELSE LET current_1m == JsonLoads(current_1m_data[1])
             strings == IF "strings" \in DOMAIN current_1m_data[1]
                        THEN current_1m_data[1].strings ELSE {}
             \* float(current_1m[k]) succeeds for every price key
             floats == PriceKeys \subseteq DOMAIN current_1m
             prices == [k \in PriceKeys |-> current_1m[k]]
         IN  IF "time" \notin (DOMAIN current_1m \cup strings)
             THEN candles                       \* current_1m['time']: KeyError
             ELSE IF "time" \in strings
             THEN \* the string equals the time of no candle
                  IF floats THEN Append(candles, [time_str |-> "abc"] @@ prices)
                  ELSE candles
             ELSE LET current_time == current_1m.time
                  IN  IF ~(\E i \in 1..Len(candles) : candles[i].time = current_time)
                      THEN IF floats
                           THEN Append(candles, [time |-> current_time] @@ prices)
                           ELSE candles         \* KeyError or ValueError
                      ELSE candles

(***************************************************************************)
(* CandleRepository.get_coin_id and CandleRepository.get_candles           *)
(***************************************************************************)
get_coin_id(symbol) ==
    IF symbol \in DOMAIN COINS THEN Some(COINS[symbol]) ELSE None

\* the awaits of get_candles that may raise: the coin lookup, the candle
\* query, the redis read of the current candle
RepoFaults == {"none", "coin_id", "query", "redis"}

\* get_candles(symbol, interval, limit) on the table contents rows1m and
\* the redis value current_1m_data, with the await named by fault raising.
\* out is the returned list or the exception; db and fresh count the
\* store queries and the fresh-candle reads that were issued
get_candles(symbol, interval, limit, rows1m, current_1m_data, fault) ==
    LET coin_id == get_coin_id(symbol)
        interval_minutes ==
            IF TIMEFRAME_MINUTES(interval) = 0 THEN 5 ELSE TIMEFRAME_MINUTES(interval)
        required_1m_candles == limit * interval_minutes
    IN  IF fault = "coin_id" THEN [out |-> Raise("DBError"), db |-> 1, fresh |-> 0]
        ELSE IF coin_id = None THEN [out |-> Ok(<<>>), db |-> 1, fresh |-> 0]
        ELSE IF fault = "query" THEN [out |-> Raise("DBError"), db |-> 2, fresh |-> 0]
        ELSE IF fault = "redis" THEN [out |-> Raise("RedisError"), db |-> 2, fresh |-> 1]
        ELSE IF interval # "1m"
        THEN LET rows == SelectDescLimit(rows1m, required_1m_candles)
                 candles_1m == MergeCurrent(RowsToCandles(rows), current_1m_data)
             IN  [out |-> IF candles_1m = <<>> THEN Ok(<<>>)
                          \* int(candle['time']) of the aggregation loop
                          ELSE IF /\ TIMEFRAME_MINUTES(interval) # 0
                                  /\ \E i \in 1..Len(candles_1m) :
                                        "time" \notin DOMAIN candles_1m[i]
                          THEN Raise("ValueError")
                          ELSE Ok(_aggregate_1m_candles(candles_1m, interval, limit)),
                  db |-> 2, fresh |-> 1]
        ELSE LET rows == SelectDescLimit(rows1m, limit)
                 candles == MergeCurrent(RowsToCandles(rows), current_1m_data)
             IN  [out |-> Ok(candles), db |-> 2, fresh |-> 1]

(***************************************************************************)
(* Candle / CandleResponse models (app/models/candle.py)                   *)
(***************************************************************************)
CandleFields == {"open_time", "open", "high", "low", "close", "volume", "close_time"}

\* Candle(open_time=c["open_time"], ..., close_time=c["close_time"]) for a
\* repository dict c: a key the dict lacks raises KeyError
CandleFromDict(c) ==
    IF CandleFields \subseteq DOMAIN c
    THEN Ok([f \in CandleFields |-> c[f]])
    ELSE Raise("KeyError")

\* the list comprehension over candles_data
CandlesFromDicts(candles_data) ==
    IF \E i \in 1..Len(candles_data) : ~CandleFromDict(candles_data[i]).ok
    THEN Raise("KeyError")
    ELSE Ok([i \in 1..Len(candles_data) |-> CandleFromDict(candles_data[i]).val])

\* CandleResponse(symbol=symbol.upper(), interval=interval, candles=candles).dict()
CandleResponse(symbol, interval, candles) ==
    [symbol |-> Upper(symbol), interval |-> interval, candles |-> candles]

(***************************************************************************)
(* Binance fallback client and the normalisation of its klines             *)
(***************************************************************************)
\* float(s) of a decimal digit string, given as its digit sequence
RECURSIVE ParseFloat(_)
ParseFloat(digits) ==
    IF digits = <<>> THEN 0
    ELSE 10 * ParseFloat(SubSeq(digits, 1, Len(digits) - 1)) + digits[Len(digits)]

\* the kline of epoch minute m as Binance sends it: times in milliseconds,
\* prices and volume as strings
RawKline(m) ==
    <<60000 * m, <<3, 0, m>>, <<3, 1, m>>, <<2, 9, m>>, <<3, 0, m + 1>>, <<m>>,
      60000 * m + 59999>>

\* variant: high and low taken from each other's column
CandleFromKline_swapped(k) ==
    [open_time  |-> k[1],
     open       |-> ParseFloat(k[2]),
     high       |-> ParseFloat(k[4]),
     low        |-> ParseFloat(k[3]),
     close      |-> ParseFloat(k[5]),
     volume     |-> ParseFloat(k[6]),
     close_time |-> k[7]]

\* Candle(open_time=k[0], open=float(k[1]), ..., close_time=k[6])
CandleFromKline(k) ==
    [open_time  |-> k[1],
     open       |-> ParseFloat(k[2]),
     high       |-> ParseFloat(k[3]),
     low        |-> ParseFloat(k[4]),
     close      |-> ParseFloat(k[5]),
     volume     |-> ParseFloat(k[6]),
     close_time |-> k[7]]

CandlesFromKlines(raw_klines) ==
    [i \in 1..Len(raw_klines) |-> CandleFromKline(raw_klines[i])]

\* what BinanceClient.get_klines may do for a request of limit candles:
\* raise (transport error, or raise_for_status on a non-2xx reply), return
\* no kline, or return the klines of minutes 4 and 5 cut to limit
KlineReplies(limit) ==
    {Raise("HTTPError"), Ok(<<>>),
     Ok(SubSeq(<<RawKline(4), RawKline(5)>>, 1, Min(limit, 2)))}

(***************************************************************************)
(* Response cache (PriceCacheRepository)                                   *)
(***************************************************************************)
\* variant: the key leaves the interval out
_key_symbol(symbol, interval) == <<"history", symbol, "">>

\* PriceCacheRepository._key
_key(symbol, interval) == <<"history", symbol, interval>>

HistoryKeys == {_key(s, i) : s \in Symbols, i \in RequestIntervals}

\* Python truthiness of a decoded JSON object
Truthy(obj) == DOMAIN obj # {}

\* variant: the lookup never finds the entry
cache_get_miss(data) == None

\* PriceCacheRepository.get on the redis value data of the key
cache_get(data) ==
    IF data # None THEN Some(JsonLoads(data[1].data)) ELSE None

\* the redis entry PriceCacheRepository.set stores with SETEX key ttl payload
cache_entry(value, ttl) == [data |-> JsonDumps(value), ttl |-> ttl]

\* app.config.CACHE_TTL_SECONDS
CACHE_TTL_SECONDS == 60

\* the ttl PriceCacheRepository.set passes to SETEX for its ttl argument
cache_set_ttl(ttl) == IF ttl = None THEN CACHE_TTL_SECONDS ELSE ttl[1]

(***************************************************************************)
(* State                                                                   *)
(***************************************************************************)
\* the request handlers (coroutines of get_price_history) of the model
Handlers == {"h1", "h2"}

VARIABLES
    fresh,      \* redis current_candle:{symbol}:1m, per symbol
    cache,      \* redis history:{symbol}:{interval}, per key: None or Some(entry)
    h,          \* per handler: the coroutine's position, locals and outcome
    nreq,       \* requests issued so far
    call,       \* a call outside get_price_history: arguments and outcome
    clock       \* the simulated clock, and what each direct cache.set stored when

vars == <<fresh, cache, h, nreq, call, clock>>

\* what a handler did to its collaborators while serving its request
NoEffects ==
    [cache_get |-> 0,       \* reads of the response cache
     cache_set |-> <<>>,    \* SETEX commands done: <<key, ttl, payload>>
     db        |-> 0,       \* queries sent to the persistent store
     fresh     |-> 0,       \* reads of the fresh-candle store
     klines    |-> 0]       \* calls of BinanceClient.get_klines

NoReply == [status |-> 0, body |-> None]

\* nothing but get_price_history has been called
NoCall == [fn |-> "none"]

\* the (symbol, interval) pairs of the direct cache calls
CachePairs == {<<BTCUSDT, "1m">>, <<BTCUSDT, "5m">>, <<btcusdt, "1m">>}

\* the clock at second 0, no direct call made, nothing stored
ClockZero == [now |-> 0, ops |-> 0, sets |-> [k \in CachePairs |-> None]]

IdleHandler ==
    [pc       |-> "idle",
     rid      |-> 0,         \* which request this is (0: none yet)
     symbol   |-> <<>>,
     interval |-> "",
     limit    |-> 0,
     \* locals of the coroutine, gone when it returns
     candles_data |-> <<>>,  \* what get_candles returned
     response     |-> None,  \* the response dict awaiting cache.set
     \* the course the request took
     get_failed |-> FALSE,   \* cache.get raised
     hit        |-> None,    \* the redis entry the cache lookup found
     repo       |-> "none",  \* how get_candles ended: raised, empty, series
     convert    |-> "none",  \* how building the Candle models ended: raised, ok
     path       |-> "none",  \* the branch that built the response
     upstream   |-> None,    \* what get_klines did: Some(Ok(klines)), Some(Raise(e))
     set_failed |-> FALSE,   \* a cache.set of this request raised
     reply      |-> NoReply, \* what the caller receives
     fx         |-> NoEffects]

Init ==
    /\ \E f \in FreshContents : fresh = [s \in Symbols |-> IF s = BTCUSDT THEN f ELSE None]
    /\ cache = [k \in HistoryKeys |-> None]
    /\ h = [p \in Handlers |-> IdleHandler]
    /\ nreq = 0
    /\ call = NoCall
    /\ clock = ClockZero

\* the limit query parameter: absent, or an integer (le=2000)
LimitArgs == {None} \cup {Some(n) : n \in 0..MaxLimit}

Returns(body) == [status |-> 200, body |-> Some(body)]
\* raise HTTPException(status_code=400, ...)
BadRequest == [status |-> 400, body |-> None]
\* an exception that leaves the handler: the framework answers 500
ServerError == [status |-> 500, body |-> None]

\* the coroutine returns or raises: its locals are gone
Finished(me, reply) ==
    [me EXCEPT !.pc = "done", !.reply = reply, !.candles_data = <<>>, !.response = None]

(***************************************************************************)
(* get_price_history, lines 27-49: validation, default limit, cache lookup *)
(***************************************************************************)
Request(p, symbol, interval, limit_arg, redis_fails) ==
    /\ h[p].pc \in {"idle", "done"}
    /\ nreq < MaxRequests
    /\ nreq' = nreq + 1
    /\ LET limit == IF limit_arg = None THEN limit_map(interval) ELSE limit_arg[1]
           new == [IdleHandler EXCEPT !.rid = nreq + 1, !.symbol = symbol,
                                      !.interval = interval, !.limit = limit]
           looked == [new EXCEPT !.fx.cache_get = 1]
           data == cache[_key(symbol, interval)]
           cached == cache_get(data)
       IN  h' = [h EXCEPT ![p] =
             IF ~is_supported_interval(interval) THEN Finished(new, BadRequest)
             ELSE IF redis_fails
             THEN Finished([looked EXCEPT !.get_failed = TRUE], ServerError)
             ELSE IF cached # None /\ Truthy(cached[1])
             THEN Finished([looked EXCEPT !.hit = data], Returns(cached[1]))
             ELSE [looked EXCEPT !.pc = "db"]]
    /\ UNCHANGED <<fresh, cache, call, clock>>

(***************************************************************************)
(* get_price_history, lines 51-95 up to the await of cache.set: the        *)
(* TimescaleDB branch inside try/except Exception.  rows1m is what table   *)
(* candle_data_1m holds for the coin when it is queried                    *)
(***************************************************************************)
PersistentPath(p, rows1m, fault) ==
    /\ h[p].pc = "db"
    /\ LET me == h[p]
           got == get_candles(me.symbol, me.interval, me.limit, rows1m,
                              fresh[me.symbol], fault)
           candles_data == IF got.out.ok THEN got.out.val ELSE <<>>
           candles == CandlesFromDicts(candles_data)
           seen == [me EXCEPT !.fx.db = got.db, !.fx.fresh = got.fresh,
                              !.candles_data = candles_data]
       IN  h' = [h EXCEPT ![p] =
             IF ~got.out.ok
             THEN [seen EXCEPT !.pc = "klines", !.repo = "raised"]
             ELSE IF candles_data = <<>>
             THEN [seen EXCEPT !.pc = "klines", !.repo = "empty"]
             ELSE IF ~candles.ok
             THEN [seen EXCEPT !.pc = "klines", !.repo = "series", !.convert = "raised"]
             ELSE [seen EXCEPT !.pc = "set", !.repo = "series", !.convert = "ok",
                     !.path = "db",
                     !.response = Some(CandleResponse(me.symbol, me.interval, candles.val))]]
    /\ UNCHANGED <<fresh, cache, nreq, call, clock>>

\* variant of Fallback: a failed upstream call is taken for an empty kline
\* list instead of failing the request
Fallback_swallow(p, raw) ==
    /\ h[p].pc = "klines"
    /\ raw \in KlineReplies(h[p].limit)
    /\ LET me == [h[p] EXCEPT !.fx.klines = @ + 1, !.upstream = Some(raw)]
           raw_klines == IF raw.ok THEN raw.val ELSE <<>>
       IN  h' = [h EXCEPT ![p] =
             [me EXCEPT !.pc = "set", !.path = "binance",
                !.response = Some(CandleResponse(me.symbol, me.interval,
                                                 CandlesFromKlines(raw_klines)))]]
    /\ UNCHANGED <<fresh, cache, nreq, call, clock>>

(***************************************************************************)
(* get_price_history, lines 98-124: the Binance fallback up to the await   *)
(* of cache.set                                                            *)
(***************************************************************************)
Fallback(p, raw) ==
    /\ h[p].pc = "klines"
    /\ raw \in KlineReplies(h[p].limit)
    /\ LET me == [h[p] EXCEPT !.fx.klines = @ + 1, !.upstream = Some(raw)]
       IN  h' = [h EXCEPT ![p] =
             IF ~raw.ok
             THEN Finished(me, ServerError)
             ELSE [me EXCEPT !.pc = "set", !.path = "binance",
                     !.response = Some(CandleResponse(me.symbol, me.interval,
                                                      CandlesFromKlines(raw.val)))]]
    /\ UNCHANGED <<fresh, cache, nreq, call, clock>>

\* variant of CacheSet: the write extends the candle list of the entry the
\* key already holds instead of replacing the entry
CacheSet_extend(p, redis_fails) ==
    /\ h[p].pc = "set"
    /\ ~redis_fails
    /\ LET me == h[p]
           key == _key(me.symbol, me.interval)
           old == IF cache[key] = None THEN <<>>
                  ELSE JsonLoads(cache[key][1].data).candles
           value == [me.response[1] EXCEPT !.candles = old \o @]
       IN  /\ cache' = [cache EXCEPT ![key] =
                          Some(cache_entry(value, ttl_map_binance(me.interval)))]
           /\ h' = [h EXCEPT ![p] = Finished(me, Returns(me.response[1]))]
    /\ UNCHANGED <<fresh, nreq, call, clock>>

(***************************************************************************)
(* get_price_history, lines 76-91 and 119-128: cache.set and return        *)
(***************************************************************************)
CacheSet(p, redis_fails) ==
    /\ h[p].pc = "set"
    /\ LET me == h[p]
           ttl == IF me.path = "db" THEN ttl_map_db(me.interval)
                  ELSE ttl_map_binance(me.interval)
           key == _key(me.symbol, me.interval)
       IN  IF redis_fails
           THEN /\ h' = [h EXCEPT ![p] =
                      IF me.path = "db"
                      THEN [me EXCEPT !.pc = "klines", !.set_failed = TRUE]
                      ELSE Finished([me EXCEPT !.set_failed = TRUE], ServerError)]
                /\ cache' = cache
           ELSE /\ cache' = [cache EXCEPT ![key] = Some(cache_entry(me.response[1], ttl))]
                /\ h' = [h EXCEPT ![p] =
                      Finished([me EXCEPT !.fx.cache_set =
                                   Append(@, <<key, ttl, JsonDumps(me.response[1])>>)],
                               Returns(me.response[1]))]
    /\ UNCHANGED <<fresh, nreq, call, clock>>

(***************************************************************************)
(* redis expires a response-cache entry when its TTL has elapsed           *)
(***************************************************************************)
Expire(key) ==
    /\ cache[key] # None
    /\ cache' = [cache EXCEPT ![key] = None]
    /\ UNCHANGED <<fresh, h, nreq, call, clock>>

\* one client: requests are served one after the other by handler h1
Next ==
    \/ \E s \in Symbols, i \in RequestIntervals, l \in LimitArgs, f \in BOOLEAN :
          Request("h1", s, i, l, f)
    \/ \E rows \in StoreContents, f \in RepoFaults : PersistentPath("h1", rows, f)
    \/ \E raw \in KlineReplies(2000) : Fallback("h1", raw)
    \/ \E f \in BOOLEAN : CacheSet("h1", f)
    \/ \E k \in HistoryKeys : Expire(k)

Spec == Init /\ [][Next]_vars

(***************************************************************************)
(* GET /prices/current-candle (get_current_candle, lines 151-174), served  *)
(* between the history requests of the one client.  The fresh-candle store *)
(* of the model holds the 1m keys only: the key of any other interval is   *)
(* absent                                                                  *)
(***************************************************************************)
\* variant: the key is read with GETDEL
CurrentCandle_consume(symbol, interval, redis_fails) ==
    /\ nreq < MaxRequests
    /\ nreq' = nreq + 1
    /\ ~redis_fails
    /\ interval = "1m"
    /\ call' = [fn |-> "get_current_candle",
                out |-> IF fresh[symbol] # None
                        THEN Some(JsonLoads(fresh[symbol][1])) ELSE None]
    /\ fresh' = [fresh EXCEPT ![symbol] = None]
    /\ UNCHANGED <<cache, h, clock>>

CurrentCandle(symbol, interval, redis_fails) ==
    /\ nreq < MaxRequests
    /\ nreq' = nreq + 1
    /\ LET current_candle == IF interval = "1m" THEN fresh[symbol] ELSE None
       IN  call' = [fn |-> "get_current_candle",
                    out |-> IF redis_fails THEN None
                            ELSE IF current_candle # None
                            THEN Some(JsonLoads(current_candle[1]))
                            ELSE None]
    /\ UNCHANGED <<fresh, cache, h, clock>>

\* the one client asks for the current candle when no history request of
\* its is under way
NextFresh ==
    \/ Next
    \/ /\ h["h1"].pc \in {"idle", "done"}
       /\ \E s \in Symbols, i \in {"1m", "5m"}, f \in BOOLEAN : CurrentCandle(s, i, f)

SpecFresh == Init /\ [][NextFresh]_vars

(***************************************************************************)
(* Two clients: the event loop interleaves the coroutines h1 and h2 at     *)
(* their awaits.  Redis, the store and the upstream answer every call      *)
(***************************************************************************)
\* no current candle is published while the two requests run
InitConc == Init /\ fresh = [s \in Symbols |-> None]

\* the requests carry the base or an aggregatable timeframe and no limit
NextConc ==
    \E p \in Handlers :
        \/ \E s \in Symbols, i \in {"1m", "5m"} : Request(p, s, i, None, FALSE)
        \/ \E rows \in StoreContents : PersistentPath(p, rows, "none")
        \/ \E raw \in {r \in KlineReplies(2000) : r.ok} : Fallback(p, raw)
        \/ CacheSet(p, FALSE)
        \/ \E k \in HistoryKeys : Expire(k)

SpecConc == InitConc /\ [][NextConc]_vars

(***************************************************************************)
(* Direct calls of the repository: one call of CandleRepository.get_candles *)
(* or of CandleRepository._aggregate_1m_candles on arguments drawn from    *)
(* bounded sets                                                            *)
(***************************************************************************)
\* the open, high, low, close and volume an input 1m candle may carry
Shape1 == [open |-> 100, high |-> 105, low |-> 99,  close |-> 103, volume |-> 10]
Shape2 == [open |-> 103, high |-> 108, low |-> 102, close |-> 107, volume |-> 12]
Shape3 == [open |-> 107, high |-> 107, low |-> 104, close |-> 105, volume |-> 8]
CandleShapes == {Shape1, Shape2, Shape3}

\* the 1m candle dict of epoch minute m
Candle1m(m, shape) ==
    [time |-> 60 * m, open |-> shape.open, high |-> shape.high, low |-> shape.low,
     close |-> shape.close, volume |-> shape.volume]

\* the minutes an input list may cover: 3 .. 2 + MaxCandles, which straddle
\* the 5m bucket boundary at second 300
InputMinutes == 3 .. (2 + MaxCandles)

\* the ascending candle list that has, for each minute m from lo on, the
\* candle of shape pick[m] unless pick[m] is None
RECURSIVE ListOf(_, _)
ListOf(pick, lo) ==
    IF lo \notin DOMAIN pick THEN <<>>
    ELSE (IF pick[lo] = None THEN <<>> ELSE <<Candle1m(lo, pick[lo][1])>>)
         \o ListOf(pick, lo + 1)

\* three 1m candles at seconds 0, 60 and 120
ThreeCandles == <<Candle1m(0, Shape1), Candle1m(1, Shape2), Candle1m(2, Shape3)>>

\* the ascending 1m lists handed to the aggregator
InputLists ==
    {ListOf(pick, 3) :
        pick \in [InputMinutes -> {None} \cup {Some(sh) : sh \in CandleShapes}]}
    \cup {ThreeCandles}

\* the target timeframes handed to the aggregator: the catalog, and one
\* string outside it
TargetIntervals == SUPPORTED_INTERVALS \cup {"2m"}

InitCalls ==
    /\ clock = ClockZero
    /\ cache = [k \in HistoryKeys |-> None]
    /\ h = [p \in Handlers |-> IdleHandler]
    /\ nreq = 0
    /\ \/ /\ fresh = [s \in Symbols |-> None]
          /\ \E cs \in InputLists, i \in TargetIntervals, l \in 0..MaxLimit :
                call = [fn |-> "_aggregate_1m_candles", candles_1m |-> cs,
                        interval |-> i, limit |-> l, out |-> None]
       \/ /\ \E f \in FreshContents :
                fresh = [s \in Symbols |-> IF s = BTCUSDT THEN f ELSE None]
          /\ \E s \in Symbols, i \in RequestIntervals, l \in 0..MaxLimit,
                rows \in StoreContents, f \in RepoFaults :
                call = [fn |-> "get_candles", symbol |-> s, interval |-> i,
                        limit |-> l, rows1m |-> rows, fault |-> f, out |-> None]
       \/ /\ \E f \in MalformedContents :
                fresh = [s \in Symbols |-> IF s = BTCUSDT THEN f ELSE None]
          /\ \E i \in RequestIntervals, l \in 0..MaxLimit, rows \in StoreContents :
                call = [fn |-> "get_candles", symbol |-> BTCUSDT, interval |-> i,
                        limit |-> l, rows1m |-> rows, fault |-> "none", out |-> None]

\* self._aggregate_1m_candles(candles_1m, interval, limit)
CallAggregate ==
    /\ call.fn = "_aggregate_1m_candles"
    /\ call.out = None
    /\ call' = [call EXCEPT !.out =
                  Some(_aggregate_1m_candles(call.candles_1m, call.interval, call.limit))]
    /\ UNCHANGED <<fresh, cache, h, nreq, clock>>

\* await candle_repo.get_candles(symbol, interval, limit)
CallGetCandles ==
    /\ call.fn = "get_candles"
    /\ call.out = None
    /\ call' = [call EXCEPT !.out =
                  Some(get_candles(call.symbol, call.interval, call.limit,
                                   call.rows1m, fresh[call.symbol], call.fault))]
    /\ UNCHANGED <<fresh, cache, h, nreq, clock>>

NextCalls == CallAggregate \/ CallGetCandles

SpecCalls == InitCalls /\ [][NextCalls]_vars

(***************************************************************************)
(* Direct calls of PriceCacheRepository under a simulated clock.  An       *)
(* entry's ttl field is the time it has left to live; redis drops the      *)
(* entry when that time has elapsed                                        *)
(***************************************************************************)
\* the values handed to cache.set: a response without and with candles
CacheValues ==
    {CandleResponse(BTCUSDT, "1m", <<>>),
     CandleResponse(BTCUSDT, "1m", CandlesFromKlines(<<RawKline(4)>>))}

\* the ttl arguments handed to cache.set: none, or the 5 s of timeframe 1m
TtlArgs == {None, Some(ttl_map_binance("1m"))}

InitCache ==
    /\ fresh = [s \in Symbols |-> None]
    /\ cache = [k \in HistoryKeys |-> None]
    /\ h = [p \in Handlers |-> IdleHandler]
    /\ nreq = 0
    /\ call = NoCall
    /\ clock = ClockZero

\* await cache.set(symbol, interval, value, ttl)
RepoSet(symbol, interval, value, ttl) ==
    /\ clock.ops < MaxOps
    /\ cache' = [cache EXCEPT ![_key(symbol, interval)] =
                    Some(cache_entry(value, cache_set_ttl(ttl)))]
    /\ call' = [fn |-> "set", symbol |-> symbol, interval |-> interval, out |-> None]
    /\ clock' = [clock EXCEPT !.ops = @ + 1,
                              !.sets[<<symbol, interval>>] =
                                  Some([value |-> value, ttl |-> ttl, at |-> clock.now])]
    /\ UNCHANGED <<fresh, h, nreq>>

\* await cache.get(symbol, interval)
RepoGet(symbol, interval) ==
    /\ clock.ops < MaxOps
    /\ call' = [fn |-> "get", symbol |-> symbol, interval |-> interval,
                out |-> cache_get(cache[_key(symbol, interval)])]
    /\ clock' = [clock EXCEPT !.ops = @ + 1]
    /\ UNCHANGED <<fresh, cache, h, nreq>>

\* d seconds pass: redis drops the entries whose time to live has elapsed
Tick(d) ==
    /\ clock.ops < MaxOps
    /\ clock' = [clock EXCEPT !.ops = @ + 1, !.now = @ + d]
    /\ cache' = [k \in DOMAIN cache |->
                    IF cache[k] = None THEN None
                    ELSE IF cache[k][1].ttl <= d THEN None
                    ELSE Some([cache[k][1] EXCEPT !.ttl = @ - d])]
    /\ UNCHANGED <<fresh, h, nreq, call>>

NextCache ==
    \/ \E k \in CachePairs, v \in CacheValues, t \in TtlArgs : RepoSet(k[1], k[2], v, t)
    \/ \E k \in CachePairs : RepoGet(k[1], k[2])
    \/ \E d \in {4, 5, CACHE_TTL_SECONDS} : Tick(d)

SpecCache == InitCache /\ [][NextCache]_vars

(***************************************************************************)
(* CoinGeckoService.get_market_cap (app/services/coingecko_service.py),    *)
(* called by GET /prices/market-cap/{symbol}.  The coroutine's position,   *)
(* locals and effects are held by call; cache holds the redis keys         *)
(* market_cap:{symbol}.  A market cap is None or Some(number), the JSON    *)
(* null being None                                                         *)
(***************************************************************************)
\* self.symbol_map, for the one symbol of the model it knows
symbol_map == (BTCUSDT :> "bitcoin")

\* self.cache_ttl
cache_ttl == 3600

max_retries == 3

\* f"market_cap:{symbol}"
cache_key(symbol) == <<"market_cap", symbol>>

MarketCapKeys == {cache_key(s) : s \in Symbols}

\* {"symbol": symbol, "marketCap": market_cap}
MarketCapResult(symbol, market_cap) == [symbol |-> symbol, marketCap |-> market_cap]

\* the JSON bodies of a 200 reply: no entry for the coin, an entry without
\* usd_market_cap, an entry with it
PriceBodies ==
    {[tether |-> [usd |-> 1]], [bitcoin |-> [usd |-> 5]]}
    \cup {[bitcoin |-> [usd |-> 5, usd_market_cap |-> v]] : v \in {7, 8}}

\* what client.get does: it raises (timeout, connection error) or returns a
\* response that is a rate limit, another error, or a 200 with a body
CoinGeckoReplies ==
    {Raise("TransportError"), Ok([status_code |-> 429]), Ok([status_code |-> 500])}
    \cup {Ok([status_code |-> 200, json |-> b]) : b \in PriceBodies}

\* data.get(coin_id, {}).get("usd_market_cap")
usd_market_cap(data, coin_id) ==
    IF coin_id \in DOMAIN data /\ "usd_market_cap" \in DOMAIN data[coin_id]
    THEN Some(data[coin_id].usd_market_cap)
    ELSE None

\* data.get("marketCap") of a cached payload
cached_market_cap(cached) ==
    LET data == JsonLoads(cached)
    IN  IF "marketCap" \in DOMAIN data THEN data.marketCap ELSE None

\* attempt < max_retries - 1
CanRetry(attempt) == attempt < max_retries - 1

\* variant: the market cap is cached whatever it is
ShouldCache_always(market_cap) == TRUE

\* the else branch of "if market_cap is None"
ShouldCache(market_cap) == market_cap # None

\* the coroutine at its start: nothing fetched, nothing written
MarketCapCall(symbol) ==
    [fn         |-> "get_market_cap",
     symbol     |-> symbol,
     pc         |-> "start",
     attempt    |-> 0,       \* the loop variable of "for attempt in range"
     market_cap |-> None,    \* the local awaiting setex
     hit        |-> FALSE,   \* the cache lookup found a value
     replies    |-> <<>>,    \* what each client.get did
     setex      |-> <<>>,    \* SETEX commands done: <<key, ttl, payload>>
     out        |-> None]    \* Some(Ok(result)) once returned

MarketCapDone(c, market_cap) ==
    [c EXCEPT !.pc = "done", !.market_cap = None,
              !.out = Some(Ok(MarketCapResult(c.symbol, market_cap)))]

\* lines 34-50: the symbol lookup and the cache lookup.  One call at a time:
\* the endpoint is called again when the previous call has returned
MarketCapRequest(symbol, redis_fails) ==
    /\ IF call.fn = "none" THEN TRUE ELSE call.pc = "done"
    /\ nreq < MaxRequests
    /\ nreq' = nreq + 1
    /\ LET c == MarketCapCall(symbol)
           cached == cache[cache_key(symbol)]
       IN  call' =
             IF symbol \notin DOMAIN symbol_map THEN MarketCapDone(c, None)
             ELSE IF redis_fails THEN [c EXCEPT !.pc = "fetch"]
             ELSE IF cached # None
             THEN MarketCapDone([c EXCEPT !.hit = TRUE],
                                cached_market_cap(cached[1].data))
             ELSE [c EXCEPT !.pc = "fetch"]
    /\ UNCHANGED <<fresh, cache, h, clock>>

\* lines 54-83 and 97-107: one pass of the retry loop up to its next await
\* or return, on what client.get did
MarketCapFetch(reply) ==
    /\ call.fn = "get_market_cap"
    /\ call.pc = "fetch"
    /\ LET c == [call EXCEPT !.replies = Append(@, reply)]
           coin_id == symbol_map[call.symbol]
       IN  call' =
             IF ~reply.ok \/ reply.val.status_code = 429
             THEN IF CanRetry(call.attempt) THEN [c EXCEPT !.pc = "sleep"]
                  ELSE MarketCapDone(c, None)
             ELSE IF reply.val.status_code # 200 THEN MarketCapDone(c, None)
             ELSE LET market_cap == usd_market_cap(reply.val.json, coin_id)
                  IN  IF ShouldCache(market_cap)
                      THEN [c EXCEPT !.pc = "setex", !.market_cap = market_cap]
                      ELSE MarketCapDone(c, market_cap)
    /\ UNCHANGED <<fresh, cache, h, nreq, clock>>

\* asyncio.sleep(...) returns and "continue" takes the next attempt of
\* range(max_retries); line 109 when the range is used up
MarketCapSleep ==
    /\ call.fn = "get_market_cap"
    /\ call.pc = "sleep"
    /\ call' = IF call.attempt + 1 < max_retries
               THEN [call EXCEPT !.pc = "fetch", !.attempt = @ + 1]
               ELSE MarketCapDone(call, None)
    /\ UNCHANGED <<fresh, cache, h, nreq, clock>>

\* lines 85-100: setex inside try/except Exception, then the return
MarketCapSetex(redis_fails) ==
    /\ call.fn = "get_market_cap"
    /\ call.pc = "setex"
    /\ LET key == cache_key(call.symbol)
           payload == JsonDumps([marketCap |-> call.market_cap])
           c == MarketCapDone(call, call.market_cap)
       IN  IF redis_fails
           THEN /\ call' = c
                /\ UNCHANGED cache
           ELSE /\ call' = [c EXCEPT !.setex = Append(@, <<key, cache_ttl, payload>>)]
                /\ cache' = [cache EXCEPT ![key] = Some([data |-> payload, ttl |-> cache_ttl])]
    /\ UNCHANGED <<fresh, h, nreq, clock>>

\* redis and the market-cap endpoint alone: no key is set
InitMarketCap ==
    /\ fresh = [s \in Symbols |-> None]
    /\ cache = [k \in MarketCapKeys |-> None]
    /\ h = [p \in Handlers |-> IdleHandler]
    /\ nreq = 0
    /\ call = NoCall
    /\ clock = ClockZero

\* the steps of the coroutine after its first await
MarketCapStep ==
    \/ \E reply \in CoinGeckoReplies : MarketCapFetch(reply)
    \/ MarketCapSleep
    \/ \E f \in BOOLEAN : MarketCapSetex(f)

NextMarketCap ==
    \/ \E s \in Symbols, f \in BOOLEAN : MarketCapRequest(s, f)
    \/ MarketCapStep
    \/ \E k \in MarketCapKeys : Expire(k)

\* every await of the coroutine completes: client.get within its timeout of
\* 10 s, asyncio.sleep after its delay, the redis command with a reply or an
\* error
SpecMarketCap ==
    InitMarketCap /\ [][NextMarketCap]_vars /\ WF_vars(MarketCapStep)

(***************************************************************************)
(* Properties                                                              *)
(***************************************************************************)
\* the request of handler p passed validation and its cache lookup found
\* nothing (the lookup itself did not fail)
CacheMiss(p) ==
    /\ h[p].rid > 0
    /\ h[p].interval \in SUPPORTED_INTERVALS
    /\ ~h[p].get_failed
    /\ h[p].hit = None

\* the key and the TTL the response of handler p's request belongs under
KeyOf(p) == <<"history", h[p].symbol, h[p].interval>>
TtlOf(p) == ttl_map_db(h[p].interval)

\* the response the klines raw_klines normalise to for handler p's request
UpstreamResponse(p, raw_klines) ==
    [symbol   |-> Upper(h[p].symbol),
     interval |-> h[p].interval,
     candles  |-> [i \in 1..Len(raw_klines) |->
                    [open_time  |-> raw_klines[i][1],
                     open       |-> ParseFloat(raw_klines[i][2]),
                     high       |-> ParseFloat(raw_klines[i][3]),
                     low        |-> ParseFloat(raw_klines[i][4]),
                     close      |-> ParseFloat(raw_klines[i][5]),
                     volume     |-> ParseFloat(raw_klines[i][6]),
                     close_time |-> raw_klines[i][7]]]]

UpstreamFailed(p) == h[p].upstream # None /\ ~h[p].upstream[1].ok
UpstreamOk(p) == h[p].upstream # None /\ h[p].upstream[1].ok

\* C1: on a cache miss, when the store resolves the symbol and get_candles
\* yields a non-empty series, the request ends with a 200 response built
\* from that series (one candle per element, same open times), writes it to
\* the cache under the timeframe's TTL and never calls get_klines.
C1_PersistentSeriesServed ==
    \A p \in Handlers :
        (CacheMiss(p) /\ h[p].repo = "series") =>
            /\ h[p].fx.klines = 0
            /\ h[p].pc \in {"set", "done"}
            /\ h[p].path = "db"
            /\ h[p].pc = "set" =>
                 /\ h[p].response # None
                 /\ Len(h[p].response[1].candles) = Len(h[p].candles_data)
                 /\ \A i \in 1..Len(h[p].candles_data) :
                       h[p].response[1].candles[i].open_time = h[p].candles_data[i].time
            /\ h[p].pc = "done" =>
                 /\ h[p].reply.status = 200
                 /\ Len(h[p].fx.cache_set) = 1
                 /\ h[p].fx.cache_set[1][1] = KeyOf(p)
                 /\ h[p].fx.cache_set[1][2] = TtlOf(p)

\* C2: a request whose timeframe is not in the interval catalog ends with
\* the 400 error and has read or written no cache entry, sent no store
\* query, read no fresh candle and called no upstream.
C2_UnsupportedTouchesNothing ==
    \A p \in Handlers :
        (h[p].rid > 0 /\ h[p].interval \notin SUPPORTED_INTERVALS) =>
            /\ h[p].pc = "done"
            /\ h[p].reply = [status |-> 400, body |-> None]
            /\ h[p].fx = NoEffects

C2_Witness ==
    \E p \in Handlers :
        /\ h[p].pc = "done"
        /\ h[p].interval = "2m"
        /\ h[p].reply.status = 400
        /\ \E k \in HistoryKeys : cache[k] # None

\* C3: a request that arrives while the cache holds an entry under its key,
\* and whose lookup does not fail, ends at once with that entry's decoded
\* payload as its 200 response, having done one cache read and nothing
\* else, and leaves the cache as it was.
C3_HitReturnsEntry ==
    [][\A p \in Handlers :
         LET key == <<"history", h'[p].symbol, h'[p].interval>>
         IN  ( /\ h'[p].rid # h[p].rid
               /\ h'[p].interval \in SUPPORTED_INTERVALS
               /\ ~h'[p].get_failed
               /\ cache[key] # None )
             => /\ h'[p].pc = "done"
                /\ h'[p].reply = [status |-> 200, body |-> Some(cache[key][1].data.json)]
                /\ h'[p].fx = [NoEffects EXCEPT !.cache_get = 1]
                /\ cache' = cache]_vars

C3_Witness ==
    \E p \in Handlers :
        /\ h[p].pc = "done"
        /\ h[p].hit # None
        /\ h[p].reply.status = 200
        /\ h[p].reply.body = Some(h[p].hit[1].data.json)
        /\ Len(h[p].reply.body[1].candles) > 0

\* C4: on a cache miss for a symbol the coins table does not hold (the
\* lookup answers, with no row), get_klines is called exactly once, and when
\* that call succeeds and the cache accepts the write the request returns
\* the normalised klines and has cached exactly them under its key.
C4_NotFoundFallsBackOnce ==
    \A p \in Handlers :
        (CacheMiss(p) /\ h[p].symbol \notin DOMAIN COINS /\ h[p].repo = "empty") =>
            /\ h[p].pc \in {"klines", "set", "done"}
            /\ h[p].fx.klines = (IF h[p].pc = "klines" THEN 0 ELSE 1)
            /\ (h[p].pc = "done" /\ UpstreamOk(p) /\ ~h[p].set_failed) =>
                 LET expected == UpstreamResponse(p, h[p].upstream[1].val)
                 IN  /\ h[p].reply = [status |-> 200, body |-> Some(expected)]
                     /\ h[p].fx.cache_set = << <<KeyOf(p), TtlOf(p), [json |-> expected]>> >>

C4_Witness ==
    \E p \in Handlers :
        /\ CacheMiss(p)
        /\ h[p].symbol \notin DOMAIN COINS
        /\ h[p].repo = "empty"
        /\ h[p].pc = "done"
        /\ h[p].fx.klines = 1
        /\ h[p].reply.status = 200
        /\ Len(h[p].reply.body[1].candles) > 0
        /\ cache[KeyOf(p)] # None

\* C5: when the persistent path fails (get_candles raises, or building the
\* Candle models raises) the request goes on to exactly one get_klines
\* call, and it ends in an error only if that call failed.
C5_PersistentFailureSwallowed ==
    \A p \in Handlers :
        (h[p].repo = "raised" \/ h[p].convert = "raised") =>
            /\ h[p].pc \in {"klines", "set", "done"}
            /\ h[p].fx.klines = (IF h[p].pc = "klines" THEN 0 ELSE 1)
            /\ h[p].pc = "done" =>
                 /\ h[p].reply.status \in {200, 500}
                 /\ h[p].reply.status = 500 => UpstreamFailed(p)

\* C6: a request whose cache lookup fails does not end there: it goes on to
\* the persistent path, and ends in an error only if the upstream call failed.
C6_CacheReadFailureIsMiss ==
    \A p \in Handlers :
        h[p].get_failed =>
            /\ h[p].fx.db >= 1
            /\ h[p].pc = "done" => (h[p].reply.status = 500 => UpstreamFailed(p))

\* C7: a request one of whose cache writes failed still ends with the 200
\* response it had resolved, and made no call after the failed write.
C7_CacheWriteFailureHarmless ==
    \A p \in Handlers :
        h[p].set_failed =>
            /\ h[p].pc = "done"
            /\ h[p].reply.status = 200
            /\ h[p].fx.klines = (IF h[p].path = "db" THEN 0 ELSE 1)
            /\ h[p].path = "binance" =>
                 h[p].reply.body = Some(UpstreamResponse(p, h[p].upstream[1].val))

\* C8: when get_klines fails the request ends with an error and no body,
\* has written no cache entry, and the failing step leaves the whole
\* response cache as it was.
C8_UpstreamFailureFails ==
    [][\A p \in Handlers :
         (h'[p].upstream # None /\ ~h'[p].upstream[1].ok) =>
            /\ h'[p].pc = "done"
            /\ h'[p].reply = [status |-> 500, body |-> None]
            /\ h'[p].fx.cache_set = <<>>
            /\ (h[p].pc = "klines" => cache' = cache)]_vars

C8_Witness ==
    \E p \in Handlers :
        /\ h[p].pc = "done"
        /\ UpstreamFailed(p)
        /\ h[p].reply.status = 500
        /\ h[p].fx.klines = 1
        /\ \E k \in HistoryKeys : cache[k] # None

\* C9: a request that returns 200 after a cache miss has written exactly
\* one cache entry, under its own (symbol, timeframe) key and with the TTL
\* of its timeframe, and the two branches use the same TTL for every
\* timeframe.
C9_OneCacheWritePerSuccess ==
    /\ \A i \in SUPPORTED_INTERVALS \cup RequestIntervals :
          ttl_map_db(i) = ttl_map_binance(i)
    /\ \A p \in Handlers :
          (CacheMiss(p) /\ h[p].pc = "done" /\ h[p].reply.status = 200) =>
              /\ Len(h[p].fx.cache_set) = 1
              /\ h[p].fx.cache_set[1][1] = KeyOf(p)
              /\ h[p].fx.cache_set[1][2] = TtlOf(p)
              /\ h[p].fx.cache_set[1][3] = [json |-> h[p].reply.body[1]]

C9_Witness ==
    \E p \in Handlers :
        /\ CacheMiss(p)
        /\ h[p].pc = "done"
        /\ h[p].reply.status = 200
        /\ h[p].interval = "5m"
        /\ h[p].fx.cache_set = << <<KeyOf(p), 10, [json |-> h[p].reply.body[1]]>> >>

\* C10: every candle list get_candles returns is strictly ascending by
\* time, hence free of duplicate times.
C10_SeriesStrictlyAscending ==
    \A p \in Handlers :
        h[p].repo = "series" => StrictlyAscending(TimesOf(h[p].candles_data))

\* C17: the TTL a request caches its response with never decreases with
\* the duration of the timeframe: of two live entries of catalog
\* timeframes, the one of the coarser timeframe has no shorter TTL.
C17_TtlMonotone ==
    \A k1, k2 \in HistoryKeys :
        ( /\ cache[k1] # None
          /\ cache[k2] # None
          /\ k1[3] \in SUPPORTED_INTERVALS
          /\ k2[3] \in SUPPORTED_INTERVALS
          /\ IntervalSeconds(k1[3]) <= IntervalSeconds(k2[3]) )
        => cache[k1][1].ttl <= cache[k2][1].ttl

\* C20: no history or current-candle request writes, overwrites or
\* deletes a current_candle entry: every step leaves the fresh-candle store
\* as it was, and every redis write a history request makes goes to a
\* history key.
C20_FreshStoreReadOnly ==
    [][/\ fresh' = fresh
       /\ \A p \in Handlers : \A i \in DOMAIN h'[p].fx.cache_set :
             h'[p].fx.cache_set[i][1][1] = "history"]_vars

\* a history request has read the current candle and cached its response,
\* a current-candle request has returned the candle, and the key still
\* holds it
C20_Witness ==
    /\ call.fn = "get_current_candle"
    /\ call.out # None
    /\ fresh[BTCUSDT] = Some(JsonDumps(call.out[1]))
    /\ \E p \in Handlers :
          /\ h[p].pc = "done"
          /\ h[p].fx.fresh = 1
          /\ Len(h[p].fx.cache_set) = 1

\* C21: the symbol is uppercased for consistency.  Every cached response
\* carries the symbol component of the key it is stored under; every cache
\* write of a request goes to the key of the uppercased symbol, so that
\* requests differing only in letter case share one key; and the store
\* lookup of a request finds the coin whenever the table holds the
\* uppercased symbol.
C21_SymbolUppercased ==
    /\ \A k \in HistoryKeys :
          cache[k] # None => cache[k][1].data.json.symbol = k[2]
    /\ \A p \in Handlers : \A i \in DOMAIN h[p].fx.cache_set :
          h[p].fx.cache_set[i][1][2] = Upper(h[p].symbol)
    /\ \A p \in Handlers :
          (CacheMiss(p) /\ h[p].repo = "empty" /\ h[p].fx.db = 1) =>
              Upper(h[p].symbol) \notin DOMAIN COINS

\* C22: candle timestamps use one unit.  While a request that got a series
\* from the persistent path is served by the fallback, no open_time of the
\* fallback response is the time of a candle of that series in another
\* unit (its thousandfold).
C22_OneTimeUnit ==
    \A p \in Handlers :
        (h[p].pc = "set" /\ h[p].path = "binance" /\ h[p].repo = "series") =>
            \A i \in DOMAIN h[p].candles_data :
                \A j \in DOMAIN h[p].response[1].candles :
                    h[p].response[1].candles[j].open_time
                        # 1000 * h[p].candles_data[i].time

(***************************************************************************)
(* Properties of two interleaved requests (specification SpecConc)         *)
(***************************************************************************)
Other(p) == CHOOSE q \in Handlers : q # p

\* both handlers serve requests for one key and both lookups missed
BothMissed ==
    /\ \A p \in Handlers : CacheMiss(p)
    /\ KeyOf("h1") = KeyOf("h2")

\* C16: two requests for one key that both miss the cache are not
\* deduplicated and never wait for each other: each step of one leaves the
\* other as it is, each makes its own upstream call and returns the whole
\* response built from its own klines, each write puts exactly the writer's
\* response under the key and touches no other key, so that once both have
\* returned the entry, while it lives, is one of the two responses whole:
\* that of the later write.
C16_LastWriterWins ==
    [][\A p \in Handlers :
         /\ (h[p].pc \in {"db", "klines"} /\ h'[p] # h[p]) =>
               /\ h'[p].pc \in {"klines", "set"}
               /\ h'[Other(p)] = h[Other(p)]
               /\ cache' = cache
         /\ (h[p].pc = "set" /\ h'[p] # h[p]) =>
               /\ h'[p].pc = "done"
               /\ h'[p].reply =
                    [status |-> 200,
                     body |-> Some(UpstreamResponse(p, h[p].upstream[1].val))]
               /\ cache'[KeyOf(p)] =
                    Some([data |-> [json |-> h'[p].reply.body[1]], ttl |-> TtlOf(p)])
               /\ \A k \in HistoryKeys \ {KeyOf(p)} : cache'[k] = cache[k]
               /\ h'[Other(p)] = h[Other(p)]
         /\ (BothMissed' /\ h'[p].pc = "done" /\ h'[Other(p)].pc = "done") =>
               /\ h'[p].reply.status = 200
               /\ h'[p].fx.klines = 1
               /\ Len(h'[p].fx.cache_set) = 1
               /\ cache'[KeyOf(p)'] # None =>
                     cache'[KeyOf(p)'][1].data.json \in
                        {h'["h1"].reply.body[1], h'["h2"].reply.body[1]}]_vars

\* both requests missed and returned different responses, and the key
\* holds the response of the request that started first: the two ran side
\* by side and the first one wrote last
C16_Witness ==
    /\ BothMissed
    /\ \A p \in Handlers : h[p].pc = "done" /\ h[p].reply.status = 200
    /\ cache[KeyOf("h1")] # None
    /\ \E p \in Handlers :
          /\ h[p].rid < h[Other(p)].rid
          /\ cache[KeyOf(p)][1].data.json = h[p].reply.body[1]
          /\ h[p].reply.body # h[Other(p)].reply.body

(***************************************************************************)
(* Properties of the direct calls (specification SpecCalls)                *)
(***************************************************************************)
\* the direct call of fn has returned
Returned(fn) == call.fn = fn /\ call.out # None

\* floor(t / width) * width
FloorTo(t, width) == (t \div width) * width

\* the n newest rows of a table: what ORDER BY timestamp DESC LIMIT n reads
RowsRead(rows, n) == {r \in rows : Cardinality({q \in rows : q.time > r.time}) < n}

\* the sum of the volumes of a set of candles
RECURSIVE SumVolume(_)
SumVolume(cands) ==
    IF cands = {} THEN 0
    ELSE LET c == CHOOSE x \in cands : TRUE
         IN  c.volume + SumVolume(cands \ {c})

\* the timeframes the aggregator's docstring names as its targets
AggregatableIntervals == {"5m", "15m", "1h", "4h", "1d", "1w"}

\* get_candles returned a series for a known coin: the closed 1m rows it
\* read, the last of them, the fresh candle and the returned series
MergeRows ==
    RowsRead(call.rows1m,
             IF call.interval = "1m" THEN call.limit
             ELSE call.limit * (IntervalSeconds(call.interval) \div 60))
MergeLastClosed == CHOOSE r \in MergeRows : \A q \in MergeRows : q.time <= r.time
MergeFresh == JsonLoads(fresh[call.symbol][1])
MergeSeries == call.out[1].out.val

\* get_candles merged a present fresh candle into a non-empty set of closed
\* rows, for timeframe 1m or an aggregatable one
MergeHappened ==
    /\ Returned("get_candles")
    /\ call.fault = "none"
    /\ call.symbol \in DOMAIN COINS
    /\ call.interval \in {"1m"} \cup AggregatableIntervals
    /\ fresh[call.symbol] \in FreshContents \ {None}
    /\ MergeRows # {}

AggInput == {call.candles_1m[i] : i \in DOMAIN call.candles_1m}
AggOut == call.out[1]

\* the input candles that fall into the window of width seconds starting
\* at start
Members(start, width) == {c \in AggInput : FloorTo(c.time, width) = start}

Earliest(cands) == CHOOSE c \in cands : \A d \in cands : c.time <= d.time
Latest(cands) == CHOOSE c \in cands : \A d \in cands : d.time <= c.time

\* C12: for every catalog timeframe and every ascending 1m input list, each
\* bucket the aggregator outputs starts at floor(open_time / duration) *
\* duration of the input candles it is built from, and has the open of the
\* first of them, the maximum of their highs, the minimum of their lows,
\* the close of the last of them and the sum of their volumes.
C12_BucketsFoldTheirMinutes ==
    (Returned("_aggregate_1m_candles") /\ call.interval \in SUPPORTED_INTERVALS) =>
        \A k \in DOMAIN AggOut :
            LET b == AggOut[k]
                ms == Members(b.time, IntervalSeconds(call.interval))
            IN  /\ ms # {}
                /\ b.open = Earliest(ms).open
                /\ \A c \in ms : c.high <= b.high
                /\ \E c \in ms : c.high = b.high
                /\ \A c \in ms : c.low >= b.low
                /\ \E c \in ms : c.low = b.low
                /\ b.close = Latest(ms).close
                /\ b.volume = SumVolume(ms)

\* a 5m call that output two buckets, the later one folded from three or
\* more candles whose highest high is not the first one's
C12_Witness ==
    /\ Returned("_aggregate_1m_candles")
    /\ call.interval = "5m"
    /\ Len(AggOut) = 2
    /\ Cardinality(Members(AggOut[2].time, 300)) >= 2
    /\ AggOut[2].high > Earliest(Members(AggOut[2].time, 300)).high
    /\ AggOut[2].low < Latest(Members(AggOut[2].time, 300)).low

\* the bucket starts the input list has under the called timeframe (none
\* for a timeframe the aggregator's table lacks)
AggStarts ==
    IF call.interval \in AggregatableIntervals
    THEN {FloorTo(c.time, IntervalSeconds(call.interval)) : c \in AggInput}
    ELSE {}

\* C13: the aggregator's output is ascending by bucket start, holds at most
\* limit buckets for any requested limit, and holds the most recent limit
\* buckets whenever the input has more.
C13_AtMostLimitMostRecent ==
    Returned("_aggregate_1m_candles") =>
        /\ StrictlyAscending(TimesOf(AggOut))
        /\ Len(AggOut) <= call.limit
        /\ Cardinality(AggStarts) > call.limit =>
              {AggOut[k].time : k \in DOMAIN AggOut} =
                  {b \in AggStarts :
                      Cardinality({a \in AggStarts : a > b}) < call.limit}

\* the one candle the three candles at 0, 60 and 120 s fold into
ThreeCandlesFolded ==
    [time |-> 0, open |-> 100, high |-> 108, low |-> 99, close |-> 105, volume |-> 30]

\* the input list is not empty and lies within one window of width seconds
OneWindow(width) ==
    /\ AggInput # {}
    /\ \A c, d \in AggInput : FloorTo(c.time, width) = FloorTo(d.time, width)

\* C14 as stated: aggregating to the catalog's 3-minute timeframe (180 s)
\* turns the three candles at 0, 60 and 120 s into the one candle
\* (0, 100, 108, 99, 105, 30), and any 1m candles within one 180 s window
\* into exactly one output candle.
C14_ThreeMinuteBucket ==
    (Returned("_aggregate_1m_candles") /\ call.interval = "3m" /\ call.limit >= 1) =>
        /\ call.candles_1m = ThreeCandles => AggOut = <<ThreeCandlesFolded>>
        /\ OneWindow(180) => Len(AggOut) = 1

\* C14, amended: for the aggregatable timeframes (5m, 15m, 1h, 4h, 1d, 1w)
\* the three candles at 0, 60 and 120 s fold into the one candle
\* (0, 100, 108, 99, 105, 30) and any 1m candles within one window fold
\* into exactly one output candle; for 3m the aggregator returns the empty
\* list.
C14_AggregatableBucket ==
    (Returned("_aggregate_1m_candles") /\ call.limit >= 1) =>
        /\ call.interval \in AggregatableIntervals =>
              /\ call.candles_1m = ThreeCandles => AggOut = <<ThreeCandlesFolded>>
              /\ OneWindow(IntervalSeconds(call.interval)) => Len(AggOut) = 1
        /\ call.interval = "3m" => AggOut = <<>>

\* the three candles were aggregated to 5m
C14_Witness ==
    /\ Returned("_aggregate_1m_candles")
    /\ call.interval = "5m"
    /\ call.limit >= 1
    /\ call.candles_1m = ThreeCandles
    /\ AggOut = <<ThreeCandlesFolded>>

\* C15: an empty input yields an empty output, and a timeframe outside the
\* aggregatable set yields an outcome that differs from the empty result of
\* an ordinary aggregation.
C15_UnsupportedDistinguished ==
    Returned("_aggregate_1m_candles") =>
        /\ call.candles_1m = <<>> => AggOut = <<>>
        /\ call.interval \notin AggregatableIntervals => AggOut # <<>>

(***************************************************************************)
(* Properties of the direct cache calls (specification SpecCache)          *)
(***************************************************************************)
\* what a get of the pair must return at the current second: the value of
\* the last set of that pair while less than its ttl (60 s when the set
\* gave none) has passed since, nothing otherwise
ExpectedGet(pair) ==
    LET stored == clock.sets[pair]
    IN  IF stored = None THEN None
        ELSE LET ttl == IF stored[1].ttl = None THEN 60 ELSE stored[1].ttl[1]
             IN  IF clock.now - stored[1].at >= ttl THEN None
                 ELSE Some(stored[1].value)

\* C18: a get right after set(symbol, timeframe, v, ttl) returns v, a get
\* once ttl has elapsed on the clock returns nothing, and what a get of a
\* pair returns depends on no set of another pair.
C18_CacheRoundTrip ==
    [][( /\ call'.fn = "get"
         /\ clock'.ops = clock.ops + 1
         /\ clock'.now = clock.now
         /\ cache' = cache )
       => call'.out = ExpectedGet(<<call'.symbol, call'.interval>>)]_vars

\* a get that found nothing because the 5 s ttl of the pair's entry had
\* elapsed, while the pair of the other timeframe still holds its entry
C18_Witness ==
    /\ call.fn = "get"
    /\ call.out = None
    /\ call.symbol = BTCUSDT
    /\ call.interval = "1m"
    /\ clock.sets[<<BTCUSDT, "1m">>] # None
    /\ clock.sets[<<BTCUSDT, "1m">>][1].ttl = Some(5)
    /\ clock.now - clock.sets[<<BTCUSDT, "1m">>][1].at = 5
    /\ cache[<<"history", BTCUSDT, "5m">>] # None

(***************************************************************************)
(* Malformed values of the fresh-candle key (specification SpecCalls)      *)
(***************************************************************************)
\* C23: a malformed fresh candle is ignored.  A call of get_candles that
\* finds a malformed value under the fresh-candle key (unparseable, or with
\* time, open, high, low, close or volume missing or not numeric) raises no
\* error and returns exactly what it returns when the key is absent.
C23_MalformedFreshIgnored ==
    (Returned("get_candles") /\ fresh[call.symbol] \in MalformedContents) =>
        /\ call.out[1].out.ok
        /\ call.out[1].out =
             get_candles(call.symbol, call.interval, call.limit,
                         call.rows1m, None, call.fault).out

(***************************************************************************)
(* Properties of get_market_cap (specification SpecMarketCap)              *)
(***************************************************************************)
\* a call of get_market_cap is under way or has returned
MarketCapCalled == call.fn = "get_market_cap"

\* the attempt made no market cap available: client.get raised, or the
\* status was not 200, or the body had no usd_market_cap for the coin
AttemptFailed(reply) ==
    \/ ~reply.ok
    \/ reply.val.status_code # 200
    \/ usd_market_cap(reply.val.json, symbol_map[call.symbol]) = None

\* the call never exceeds max_retries upstream requests, writes the cache
\* only with a non-null market cap obtained from the upstream, and returns
\* {symbol, marketCap}: null for an unknown symbol (with no upstream request)
\* and when every attempt failed, the upstream's value otherwise
MarketCapSafe ==
    MarketCapCalled =>
        /\ Len(call.replies) <= max_retries
        /\ \A i \in DOMAIN call.setex :
              /\ call.replies # <<>>
              /\ JsonLoads(call.setex[i][3]).marketCap # None
              /\ JsonLoads(call.setex[i][3]).marketCap =
                    usd_market_cap(call.replies[Len(call.replies)].val.json,
                                   symbol_map[call.symbol])
        /\ call.pc = "done" =>
              /\ call.out # None
              /\ call.out[1].ok
              /\ DOMAIN call.out[1].val = {"symbol", "marketCap"}
              /\ call.out[1].val.symbol = call.symbol
              /\ call.symbol \notin DOMAIN symbol_map =>
                    call.out[1].val.marketCap = None /\ call.replies = <<>>
              /\ (/\ call.symbol \in DOMAIN symbol_map
                  /\ ~call.hit
                  /\ \A i \in DOMAIN call.replies : AttemptFailed(call.replies[i])) =>
                    call.out[1].val.marketCap = None
              /\ (/\ call.replies # <<>>
                  /\ ~AttemptFailed(call.replies[Len(call.replies)])) =>
                    call.out[1].val.marketCap =
                        usd_market_cap(call.replies[Len(call.replies)].val.json,
                                       symbol_map[call.symbol])

\* C24: get_market_cap always terminates and never raises.  Whatever the
\* cache errors, rate limits, other error statuses and transport exceptions,
\* a call makes at most 3 upstream requests, returns {symbol, marketCap}
\* (null when every attempt fails or the symbol is unknown), writes the
\* market-cap cache only with a non-null market cap it obtained, and every
\* call under way returns.
C24_MarketCapTerminates ==
    /\ []MarketCapSafe
    /\ (MarketCapCalled /\ call.pc # "done") ~> (MarketCapCalled /\ call.pc = "done")

\* a call that was rate limited, then met a transport error, then got a
\* market cap on its third and last attempt, cached it and returned it
C24_Witness ==
    /\ MarketCapCalled
    /\ call.pc = "done"
    /\ Len(call.replies) = max_retries
    /\ call.replies[1] = Ok([status_code |-> 429])
    /\ ~call.replies[2].ok
    /\ Len(call.setex) = 1
    /\ call.out[1].val.marketCap # None
    /\ cache[cache_key(call.symbol)] # None

====
